---- MODULE Spec2Model ----
(***************************************************************************)
(* Model of static/app.js of sar_tracker: the dashboard script that       *)
(* fetches /state, formats a few fields and rebuilds three tables.        *)
(*                                                                         *)
(* JavaScript values are tagged tuples: <<"string", chars>>,               *)
(* <<"number", n>>, <<"NaN">>, <<"boolean", b>>, <<"null">>,               *)
(* <<"undefined">>, <<"object", fields>>.  A JavaScript string is the      *)
(* sequence of its characters, so that the regular expression, the        *)
(* prefix tests and the splits of the source are computed, not assumed.   *)
(* A thrown exception is the value <<"throw", kind>>.                      *)
(***************************************************************************)
EXTENDS Integers, Sequences, FiniteSets, TLC

VARIABLES ui, reqs, loaded, outcome, logged, shown, fn, arg, out

vars == <<ui, reqs, loaded, outcome, logged, shown, fn, arg, out>>

(***************************************************************************)
(* JavaScript values                                                       *)
(***************************************************************************)
Str(s) == <<"string", s>>
Num(n) == <<"number", n>>
NaN == <<"NaN">>
Bool(b) == <<"boolean", b>>
Null == <<"null">>
Undefined == <<"undefined">>
Obj(fields) == <<"object", fields>>
TypeError == <<"throw", "TypeError">>

Tag(v) == v[1]
IsThrow(v) == Tag(v) = "throw"
IsString(v) == Tag(v) = "string"
EmptyStr == Str(<<>>)

\* JavaScript truthiness: the falsy values are null, undefined, '', 0, NaN, false.
Falsy(v) ==
    \/ Tag(v) \in {"null", "undefined", "NaN"}
    \/ Tag(v) = "string" /\ v[2] = <<>>
    \/ Tag(v) = "number" /\ v[2] = 0
    \/ Tag(v) = "boolean" /\ v[2] = FALSE

DigitChars == <<"0", "1", "2", "3", "4", "5", "6", "7", "8", "9">>
IsDigit(c) == \E i \in 1..10 : DigitChars[i] = c
DigitVal(c) == (CHOOSE i \in 1..10 : DigitChars[i] = c) - 1

RECURSIVE DigitsOf(_)
\* the decimal digits of a natural number, no leading zero
DigitsOf(n) ==
    IF n < 10 THEN <<DigitChars[n + 1]>>
    ELSE DigitsOf(n \div 10) \o <<DigitChars[(n % 10) + 1]>>

\* String(n) for an integer n
NumToStr(n) == IF n < 0 THEN <<"-">> \o DigitsOf(0 - n) ELSE DigitsOf(n)

RECURSIVE DecVal(_)
\* the value of a sequence of decimal digits (0 for the empty sequence)
DecVal(s) ==
    IF s = <<>> THEN 0
    ELSE 10 * DecVal(SubSeq(s, 1, Len(s) - 1)) + DigitVal(s[Len(s)])

AllDigits(s) == \A i \in 1..Len(s) : IsDigit(s[i])

RECURSIVE TrimLeft(_)
TrimLeft(s) == IF s /= <<>> /\ s[1] = " " THEN TrimLeft(Tail(s)) ELSE s

RECURSIVE TrimRight(_)
TrimRight(s) ==
    IF s /= <<>> /\ s[Len(s)] = " " THEN TrimRight(SubSeq(s, 1, Len(s) - 1)) ELSE s

\* the number a trimmed, non-empty string t denotes, NaN when it denotes none
SignedDecimal(t, body) ==
    IF body /= <<>> /\ AllDigits(body)
    THEN Num(IF t[1] = "-" THEN 0 - DecVal(body) ELSE DecVal(body))
    ELSE NaN

NumberOfTrimmed(t) ==
    IF t = <<>> THEN Num(0)
    ELSE SignedDecimal(t, IF t[1] \in {"-", "+"} THEN Tail(t) ELSE t)

\* Number(s) for a string of digits, blanks, signs and letters (no '.', exponent,
\* radix prefix or "Infinity"): blanks are trimmed, '' is 0, an optionally signed
\* run of digits is its value, anything else is NaN.
StringToNumber(s) == NumberOfTrimmed(TrimRight(TrimLeft(s)))

\* Number(v)
ToNumber(v) ==
    CASE Tag(v) = "number" -> v
      [] Tag(v) = "NaN" -> NaN
      [] Tag(v) = "null" -> Num(0)
      [] Tag(v) = "undefined" -> NaN
      [] Tag(v) = "boolean" -> Num(IF v[2] THEN 1 ELSE 0)
      [] Tag(v) = "string" -> StringToNumber(v[2])
      [] Tag(v) = "object" -> NaN

\* String(v), the text a value gets when it is coerced to a string
ToStr(v) ==
    CASE Tag(v) = "string" -> v[2]
      [] Tag(v) = "number" -> NumToStr(v[2])
      [] Tag(v) = "NaN" -> <<"N", "a", "N">>
      [] Tag(v) = "null" -> <<"n", "u", "l", "l">>
      [] Tag(v) = "undefined" -> <<"u", "n", "d", "e", "f", "i", "n", "e", "d">>
      [] Tag(v) = "boolean" -> IF v[2] THEN <<"t", "r", "u", "e">>
                                       ELSE <<"f", "a", "l", "s", "e">>
      [] Tag(v) = "object" ->
            <<"[", "o", "b", "j", "e", "c", "t", " ", "O", "b", "j", "e", "c", "t", "]">>

StartsWith(s, p) == Len(s) >= Len(p) /\ SubSeq(s, 1, Len(p)) = p
EndsWith(s, p) == Len(s) >= Len(p) /\ SubSeq(s, Len(s) - Len(p) + 1, Len(s)) = p

RECURSIVE Split(_, _)
\* s.split(sep) for a one-character separator: the pieces between separators
Split(s, sep) ==
    IF \A i \in 1..Len(s) : s[i] /= sep THEN <<s>>
    ELSE LET k == CHOOSE i \in 1..Len(s) :
                      s[i] = sep /\ \A j \in 1..(i - 1) : s[j] /= sep
         IN  <<SubSeq(s, 1, k - 1)>> \o Split(SubSeq(s, k + 1, Len(s)), sep)

RECURSIVE ReplaceFirst(_, _, _)
\* s.replace(c, by) for a one-character pattern: only the first occurrence
ReplaceFirst(s, c, by) ==
    IF s = <<>> THEN <<>>
    ELSE IF s[1] = c THEN by \o Tail(s)
    ELSE <<s[1]>> \o ReplaceFirst(Tail(s), c, by)

\* a number written with at least w digits, zero-padded on the left
RECURSIVE Pad(_, _)
Pad(n, w) == IF w <= 1 THEN DigitsOf(n)
             ELSE IF Len(DigitsOf(n)) >= w THEN DigitsOf(n)
             ELSE <<"0">> \o Pad(n, w - 1)

(***************************************************************************)
(* Date.UTC and Date.prototype.toISOString (line 43-44), on the proleptic  *)
(* Gregorian calendar.  A time value is <<day number, second of the day>>  *)
(* counted from 1970-01-01; milliseconds are always 0 here.                *)
(***************************************************************************)
\* day number of the civil date y-m-d (m in 1..12); the year is counted from
\* March, in eras of 400 years
DayOfEra(yoe, mp, d) ==
    yoe * 365 + yoe \div 4 - yoe \div 100 + (153 * mp + 2) \div 5 + d - 1

DaysFromMarchYear(yy, mp, d) ==
    (yy \div 400) * 146097 + DayOfEra(yy % 400, mp, d) - 719468

DaysFromCivil(y, m, d) ==
    IF m <= 2 THEN DaysFromMarchYear(y - 1, m + 9, d)
    ELSE DaysFromMarchYear(y, m - 3, d)

\* the civil date <<y, m, d>> of a day number
YearOfEra(doe) == (doe - doe \div 1460 + doe \div 36524 - doe \div 146096) \div 365

DayOfYear(doe, yoe) == doe - (365 * yoe + yoe \div 4 - yoe \div 100)

CivilOfMarchYear(yy, mp, doy) ==
    <<IF mp >= 10 THEN yy + 1 ELSE yy,
      IF mp < 10 THEN mp + 3 ELSE mp - 9,
      doy - (153 * mp + 2) \div 5 + 1>>

CivilOfYearOfEra(era, doe, yoe) ==
    CivilOfMarchYear(yoe + era * 400, (5 * DayOfYear(doe, yoe) + 2) \div 153,
                     DayOfYear(doe, yoe))

CivilFromDays(z) ==
    CivilOfYearOfEra((z + 719468) \div 146097, (z + 719468) % 146097,
                     YearOfEra((z + 719468) % 146097))

\* a day number and a count of seconds from its midnight, as a time value
TimeValue(day, secs) == <<day + secs \div 86400, secs % 86400>>

\* Date.UTC(year, month, date, hours, minutes, seconds): a year of 0..99 means
\* 1900 + year, the month counts from 0, and every field out of its range
\* carries into the next larger one.
DateUTC(year, month, date, hours, minutes, seconds) ==
    TimeValue(DaysFromCivil((IF year >= 0 /\ year <= 99 THEN 1900 + year ELSE year)
                              + month \div 12,
                            (month % 12) + 1, 1) + date - 1,
              hours * 3600 + minutes * 60 + seconds)

\* toISOString of a time value: YYYY-MM-DDTHH:mm:ss.sssZ, the year with four
\* digits when it is in 0..9999 and with a sign and six digits otherwise
IsoYear(y) ==
    IF y >= 0 /\ y <= 9999 THEN Pad(y, 4)
    ELSE IF y < 0 THEN <<"-">> \o Pad(0 - y, 6)
    ELSE <<"+">> \o Pad(y, 6)

IsoDate(c) == IsoYear(c[1]) \o <<"-">> \o Pad(c[2], 2) \o <<"-">> \o Pad(c[3], 2)

IsoTime(secs) ==
    Pad(secs \div 3600, 2) \o <<":">> \o Pad((secs % 3600) \div 60, 2)
    \o <<":">> \o Pad(secs % 60, 2)

ToISOString(t) ==
    IsoDate(CivilFromDays(t[1])) \o <<"T">> \o IsoTime(t[2]) \o <<".", "0", "0", "0", "Z">>

(***************************************************************************)
(* formatTimestamp, formatStatusCode, formatLocationStatus                 *)
(***************************************************************************)
\* /^(\d{4})(\d{2})(\d{2})T(\d{2})(\d{2})(\d{2})Z$/
MatchesTimestamp(s) ==
    /\ Len(s) = 16
    /\ \A i \in (1..8) \cup (10..15) : IsDigit(s[i])
    /\ s[9] = "T"
    /\ s[16] = "Z"

\* +m[k]: the number written by the digits of s from position a to b
Group(s, a, b) == DecVal(SubSeq(s, a, b))

\* line 43-44: the date of the six groups, written by toISOString, with the
\* first 'T' replaced by ' ' and the first 'Z' by ' UTC'
FormatMatch(s) ==
    Str(ReplaceFirst(
          ReplaceFirst(
            ToISOString(DateUTC(Group(s, 1, 4), Group(s, 5, 6) - 1, Group(s, 7, 8),
                                Group(s, 10, 11), Group(s, 12, 13), Group(s, 14, 15))),
            "T", <<" ">>),
          "Z", <<" ", "U", "T", "C">>))

\* function formatTimestamp(ts): '' for a falsy ts; ts.match throws a TypeError
\* when ts is truthy and not a string (a number, true, an object)
formatTimestamp(ts) ==
    IF Falsy(ts) THEN EmptyStr
    ELSE IF ~IsString(ts) THEN TypeError
    ELSE IF MatchesTimestamp(ts[2]) THEN FormatMatch(ts[2])
    ELSE ts

Str4ok == <<"4", " ", "-", " ", "o", "k">>
Str6notok == <<"6", " ", "-", " ", "n", "o", "t", " ", "o", "k">>

\* a slip: the code compared with === before the numeric coercion
formatStatusCodeNoCoercion(code) ==
    IF Tag(code) \in {"null", "undefined"} \/ code = EmptyStr THEN EmptyStr
    ELSE IF code = Num(4) THEN Str(Str4ok)
    ELSE IF code = Num(6) THEN Str(Str6notok)
    ELSE IF Tag(ToNumber(code)) /= "NaN" THEN Str(NumToStr(ToNumber(code)[2]))
    ELSE Str(ToStr(code))

\* line 60-65: the text of a code that Number() turned into n
StatusCodeText(code, n) ==
    IF Tag(n) /= "NaN"
    THEN IF n = Num(4) THEN Str(Str4ok)
         ELSE IF n = Num(6) THEN Str(Str6notok)
         ELSE Str(NumToStr(n[2]))
    ELSE Str(ToStr(code))

\* function formatStatusCode(code)
formatStatusCode(code) ==
    IF Tag(code) \in {"null", "undefined"} \/ code = EmptyStr THEN EmptyStr
    ELSE StatusCodeText(code, ToNumber(code))

StrPercentagePrefix == <<"p", "e", "r", "c", "e", "n", "t", "a", "g", "e", " ">>

\* line 73: ls.split(' ')[1] || ls
SecondToken(ls, pieces) == IF pieces[2] = <<>> THEN ls ELSE Str(pieces[2])

\* function formatLocationStatus(ls)
formatLocationStatus(ls) ==
    IF Falsy(ls) /\ ls /= Num(0) THEN EmptyStr
    ELSE IF IsString(ls) /\ StartsWith(ls[2], StrPercentagePrefix)
    THEN SecondToken(ls, Split(ls[2], " "))
    ELSE Str(ToStr(ls))

(***************************************************************************)
(* Objects, arrays and the order of Array.prototype.sort                   *)
(***************************************************************************)
Arr(elems) == <<"array", elems>>

\* v[name]: reading a property of null or undefined throws, a missing
\* property is undefined
Get(v, name) ==
    IF Tag(v) \in {"null", "undefined"} THEN TypeError
    ELSE IF Tag(v) = "object" /\ name \in DOMAIN v[2] THEN v[2][name]
    ELSE Undefined

\* Object.keys(v) of an object (a primitive has no own keys)
Keys(v) == IF Tag(v) = "object" THEN DOMAIN v[2] ELSE {}

\* the elements of an array; x || [] for a missing one
Elems(v) == IF Tag(v) = "array" THEN v[2] ELSE <<>>

\* the characters the strings of the model are made of, in code unit order
CodeUnitOrder ==
    <<" ", "%", "+", "-", "/", "0", "1", "2", "3", "4", "5", "6", "7", "8", "9",
      ":", "A", "B", "H", "Q", "T", "Z", "a", "b", "c", "e", "g", "k", "n", "o",
      "p", "r", "s", "t", "u", "x", "{", "}">>
CodeUnit(c) == CHOOSE i \in 1..Len(CodeUnitOrder) : CodeUnitOrder[i] = c

RECURSIVE CodeUnitLess(_, _)
\* a before b by code units, a proper prefix first
CodeUnitLess(a, b) ==
    IF b = <<>> THEN FALSE
    ELSE IF a = <<>> THEN TRUE
    ELSE IF a[1] /= b[1] THEN CodeUnit(a[1]) < CodeUnit(b[1])
    ELSE CodeUnitLess(Tail(a), Tail(b))

\* a slip: keys that look like numbers compared as numbers
NumericLess(a, b) ==
    IF AllDigits(a) /\ AllDigits(b) THEN DecVal(a) < DecVal(b) ELSE CodeUnitLess(a, b)

\* a < b as sort() with no comparator orders two strings
LexLess(a, b) == CodeUnitLess(a, b)

RECURSIVE SortedSeq(_)
\* the elements of a set of strings in ascending sort() order
SortedSeq(S) ==
    IF S = {} THEN <<>>
    ELSE LET least == CHOOSE x \in S : \A y \in S \ {x} : LexLess(x, y)
         IN  <<least>> \o SortedSeq(S \ {least})

\* Object.keys(s).sort()
SortedKeys(v) == SortedSeq(Keys(v))

RECURSIVE Concat(_)
\* the concatenation of a sequence of sequences
Concat(ss) == IF ss = <<>> THEN <<>> ELSE ss[1] \o Concat(Tail(ss))

(***************************************************************************)
(* makeTable and the document                                              *)
(***************************************************************************)
\* The document is a function from element id to content: a container's
\* content is the sequence of its child tables, last-updated's is its text.
ContainerIds == {"current-status", "status-history", "transmissions"}
ElementIds == ContainerIds \cup {"last-updated"}

Document == [id \in ElementIds |-> <<>>]

\* line 26-29: the td of a cell value c
Cell(c) ==
    IF Tag(c) \in {"null", "undefined"} THEN [text |-> <<>>, mono |-> FALSE]
    ELSE IF IsString(c) /\ StartsWith(c[2], <<"{">>) /\ EndsWith(c[2], <<"}">>)
    THEN [text |-> c[2], mono |-> TRUE]
    ELSE [text |-> ToStr(c), mono |-> FALSE]

\* line 15-34: the table element built from headers and rows
TableOf(headers, rows) ==
    [headers |-> headers,
     rows |-> [i \in 1..Len(rows) |-> [j \in 1..Len(rows[i]) |-> Cell(rows[i][j])]]]

\* a slip: the container is not cleared first, the new table is appended
makeTableAppending(doc, containerId, headers, rows) ==
    [doc EXCEPT ![containerId] = doc[containerId] \o <<TableOf(headers, rows)>>]

\* function makeTable(containerId, headers, rows): the container is emptied
\* (innerHTML = '') and gets the new table as its only child
makeTable(doc, containerId, headers, rows) ==
    [doc EXCEPT ![containerId] = <<TableOf(headers, rows)>>]

(***************************************************************************)
(* renderState                                                             *)
(***************************************************************************)
currentHeaders ==
    <<"Team", "Current Location", "Location Status", "Transit", "Status Code", "Updated">>
histHeaders ==
    <<"Team", "Timestamp", "Location", "Location Status", "Transit", "Status Code">>
txHeaders == <<"Timestamp", "Dest", "Src", "Message">>

\* x || y
OrElse(x, y) == IF Falsy(x) THEN y ELSE x

AnyThrow(row) == \E i \in 1..Len(row) : IsThrow(row[i])

\* a row under construction: the cell values, or the exception thrown by one
\* of the expressions that compute them
Built(row) == [threw |-> AnyThrow(row), row |-> row]

\* the rows of a loop, and whether building one of them threw
Collected(built) ==
    [threw |-> \E i \in 1..Len(built) : built[i].threw,
     rows |-> [i \in 1..Len(built) |-> built[i].row]]

\* line 83: the last event of a history, null for an empty one
Last(history) == IF Len(history) /= 0 THEN history[Len(history)] ELSE Null

\* line 84-85: the Current Status row of a team whose current event is current
CurrentRowOf(team, location, current) ==
    IF Falsy(current)
    THEN Built(<<Str(team), OrElse(location, EmptyStr),
                 EmptyStr, EmptyStr, EmptyStr, EmptyStr>>)
    ELSE Built(<<Str(team), OrElse(location, EmptyStr),
                 formatLocationStatus(Get(current, "location_status")),
                 Get(current, "transit"),
                 formatStatusCode(Get(current, "status_code")),
                 formatTimestamp(Get(current, "timestamp"))>>)

\* line 82-85: the Current Status row of a team
CurrentRow(s, locs, team) ==
    CurrentRowOf(team, Get(locs, team), Last(Elems(Get(s, team))))

\* line 81-86: currentRows, unless an exception escapes the forEach
CurrentRowsOf(s, locs, teams) ==
    Collected([i \in 1..Len(teams) |-> CurrentRow(s, locs, teams[i])])

CurrentRows(s, locs) == CurrentRowsOf(s, locs, SortedKeys(s))

\* line 95: the Status History row of event e of a team; e.timestamp throws
\* when e is null
HistRow(team, e) ==
    IF Tag(e) \in {"null", "undefined"} THEN Built(<<TypeError>>)
    ELSE Built(<<Str(team), formatTimestamp(Get(e, "timestamp")),
                 Get(e, "location"),
                 formatLocationStatus(Get(e, "location_status")),
                 Get(e, "transit"),
                 formatStatusCode(Get(e, "status_code"))>>)

\* the events of one team, each paired with the team
TeamPairs(team, es) == [j \in 1..Len(es) |-> <<team, es[j]>>]

\* the (team, event) pairs in the order the two nested forEach visit them
HistPairsOf(s, teams) ==
    Concat([i \in 1..Len(teams) |-> TeamPairs(teams[i], Elems(Get(s, teams[i])))])

HistPairs(s) == HistPairsOf(s, SortedKeys(s))

\* the rows pushed before the first row that throws, all of them when none does
RowsBeforeThrow(built, bad) ==
    [rows |-> [i \in 1..(IF bad = {} THEN Len(built)
                         ELSE (CHOOSE i \in bad : \A j \in bad : i <= j) - 1) |->
                 built[i].row],
     caught |-> bad /= {}]

\* a slip: the try inside the inner loop, so that only the failing row is lost
HistRowsKeepingLater(built) ==
    [rows |-> [i \in 1..Len(SelectSeq(built, LAMBDA b : ~b.threw)) |->
                 SelectSeq(built, LAMBDA b : ~b.threw)[i].row],
     caught |-> \E i \in 1..Len(built) : built[i].threw]

\* line 91-100: histRows after the try block.  The try encloses both loops:
\* an exception ends them, the rows pushed before it stay, and it is logged.
HistRowsOf(built) == RowsBeforeThrow(built, {i \in 1..Len(built) : built[i].threw})

HistRowsFrom(pairs) ==
    HistRowsOf([i \in 1..Len(pairs) |-> HistRow(pairs[i][1], pairs[i][2])])

HistRows(s) == HistRowsFrom(HistPairs(s))

\* line 105: the row of transmission t; t.timestamp throws when t is null
TxRow(t) ==
    IF Tag(t) \in {"null", "undefined"} THEN Built(<<TypeError>>)
    ELSE Built(<<formatTimestamp(Get(t, "timestamp")),
                 Get(t, "dest"), Get(t, "src"), Get(t, "msg")>>)

\* line 105: txRows, unless an exception escapes the map
TxRowsOf(ts) == Collected([i \in 1..Len(ts) |-> TxRow(ts[i])])

TxRows(data) == TxRowsOf(Elems(Get(data, "transmissions")))

StrLastLoaded == <<"L", "a", "s", "t", " ", "l", "o", "a", "d", "e", "d", ":", " ">>

\* line 108-109
SetLastUpdated(doc, now) ==
    [doc EXCEPT !["last-updated"] = StrLastLoaded \o NumToStr(now)]

\* line 81-109 once the rows are computed.  The statements run in order, so
\* an exception leaves the tables replaced before it and the rest as they
\* were: currentRows throwing leaves the document untouched, txRows throwing
\* leaves Current Status and Status History replaced.
RenderTables(doc, currentRows, hist, txRows, now) ==
    IF currentRows.threw
    THEN [doc |-> doc, threw |-> TRUE, caught |-> FALSE, tables |-> 0]
    ELSE IF txRows.threw
    THEN [doc |-> makeTable(makeTable(doc, "current-status", currentHeaders,
                                      currentRows.rows),
                            "status-history", histHeaders, hist.rows),
          threw |-> TRUE, caught |-> hist.caught, tables |-> 2]
    ELSE [doc |-> SetLastUpdated(
                    makeTable(makeTable(makeTable(doc, "current-status", currentHeaders,
                                                  currentRows.rows),
                                        "status-history", histHeaders, hist.rows),
                              "transmissions", txHeaders, txRows.rows),
                    now),
          threw |-> FALSE, caught |-> hist.caught, tables |-> 3]

\* line 54-55: data.status_by_team || {} and data.location_by_team || {}
StatusByTeam(data) == OrElse(Get(data, "status_by_team"), Obj(<<>>))
LocationByTeam(data) == OrElse(Get(data, "location_by_team"), Obj(<<>>))

\* function renderState(data), run on document doc at wall-clock time now.
\* The result is the document it leaves, whether an exception escaped it,
\* whether the history loop logged one and how many tables it rebuilt.
renderState(doc, data, now) ==
    IF Falsy(data) THEN [doc |-> doc, threw |-> FALSE, caught |-> FALSE, tables |-> 0]
    ELSE RenderTables(doc, CurrentRows(StatusByTeam(data), LocationByTeam(data)),
                      HistRows(StatusByTeam(data)), TxRows(data), now)

(***************************************************************************)
(* Bounds and the inputs drawn within them                                 *)
(***************************************************************************)
\* events in all the histories of one snapshot
MaxEvents == 2
\* transmissions of one snapshot
MaxTx == 1
\* refreshes in flight at once
MaxPending == 2
\* characters of a status code given as a string
MaxCodeLen == 3
\* consecutive renderState calls with one snapshot
MaxCalls == 2

SeqsUpTo(S, n) == UNION {[1..k -> S] : k \in 0..n}

StrHQ == <<"H", "Q">>
StrBus == <<"b", "u", "s">>
StrBraces == <<"{", "x", "}">>
StrNA == <<"n", "/", "a">>
StrPct60 == StrPercentagePrefix \o <<"6", "0", "%">>
Ts20240115 ==
    <<"2", "0", "2", "4", "0", "1", "1", "5", "T", "1", "3", "3", "0", "0", "0", "Z">>

\* a StatusEvent as the data model describes it
EvFull ==
    Obj([timestamp |-> Str(Ts20240115), location |-> Str(StrHQ),
         location_status |-> Str(StrPct60), transit |-> Str(StrBus),
         status_code |-> Num(4)])
\* an event with a free-text timestamp, no location and a code given as a string
EvSparse ==
    Obj([timestamp |-> Str(StrNA), location_status |-> Num(0),
         transit |-> Str(StrBraces), status_code |-> Str(<<"6">>)])
\* an event whose timestamp is a JSON number
EvNumTs ==
    Obj([timestamp |-> Num(20240115), location |-> Str(StrHQ),
         location_status |-> Str(StrPct60), transit |-> Str(StrBus),
         status_code |-> Num(7)])
\* a history may also hold a JSON null
Events == {EvFull, EvSparse, EvNumTs, Null}

TxFull ==
    Obj([timestamp |-> Str(Ts20240115), dest |-> Str(StrHQ), src |-> Str(<<"9">>),
         msg |-> Str(StrBraces)])
TxNumTs ==
    Obj([timestamp |-> Num(20240115), dest |-> Str(StrHQ), src |-> Str(<<"9">>),
         msg |-> Str(StrBus)])
TxEntries == {TxFull, TxNumTs}

Team10 == <<"1", "0">>
Team9 == <<"9">>
Teams == {Team10, Team9}

RECURSIVE SumLen(_, _)
SumLen(f, T) ==
    IF T = {} THEN 0
    ELSE LET t == CHOOSE x \in T : TRUE
         IN  Len(f[t]) + SumLen(f, T \ {t})

\* status_by_team: some of the teams, each with a history, MaxEvents events in all
StatusMaps ==
    UNION {{[t \in T |-> Arr(h[t])] :
              h \in {g \in [T -> SeqsUpTo(Events, MaxEvents)] : SumLen(g, T) <= MaxEvents}} :
           T \in SUBSET Teams}

LocMaps == {Undefined, Obj([t \in {Team9} |-> Str(StrHQ)])}

TxLists == {Undefined} \cup {Arr(q) : q \in SeqsUpTo(TxEntries, MaxTx)}

Snapshot(s, l, t) == Obj([status_by_team |-> s, location_by_team |-> l, transmissions |-> t])

\* the JSON documents /state may answer with
Snapshots == {Snapshot(Obj(s), l, t) : s \in StatusMaps, l \in LocMaps, t \in TxLists}

\* the bodies the controller is run against: JSON null, a full snapshot, one
\* whose first history holds a null, one with a numeric timestamp in a current
\* event and one with a numeric timestamp in a transmission
BodyFull ==
    Snapshot(Obj([t \in {Team9} |-> Arr(<<EvSparse, EvFull>>)]),
             Obj([t \in {Team9} |-> Str(StrHQ)]), Arr(<<TxFull>>))
BodyNullEvent ==
    Snapshot(Obj([t \in Teams |-> IF t = Team10 THEN Arr(<<Null>>) ELSE Arr(<<EvFull>>)]),
             Undefined, Arr(<<>>))
BodyNumTsCurrent ==
    Snapshot(Obj([t \in {Team10} |-> Arr(<<EvNumTs>>)]), Undefined, Undefined)
BodyNumTsTx ==
    Snapshot(Obj([t \in {Team10} |-> Arr(<<EvFull>>)]), Undefined, Arr(<<TxNumTs>>))
Bodies == {Null, BodyFull, BodyNullEvent, BodyNumTsCurrent, BodyNumTsTx}

Clock == {1, 2}

\* what a call of renderState reports besides the document
NoCall == [calls |-> 0, threw |-> FALSE, caught |-> FALSE, tables |-> 0]

(***************************************************************************)
(* fetchState, refresh and the event loop                                  *)
(*                                                                         *)
(* reqs holds the refreshes in flight in the order they were started, each *)
(* at the await it is suspended at: "fetch" (line 3) or "json" (line 5).   *)
(* outcome tells how the refresh that ended last ended: "failed"           *)
(* (fetchState caught an error and returned null), "empty" (the body was   *)
(* a falsy JSON value), "rendered", or "threw" (an exception escaped       *)
(* refresh).  logged is the last console.error entry.  shown records, for  *)
(* each container, the body its table was built from; arg and out record   *)
(* the last renderState call.                                              *)
(***************************************************************************)
\* a slip: the catch block answering with an empty object
fetchStateCatchEmptyObject == Obj(<<>>)

\* line 6-9: what fetchState returns when the try block threw
fetchStateCatch == Null

LogFetchFailed == "fetchState failed"
LogHistory == "Error building status history rows"

Remove(q, i) == SubSeq(q, 1, i - 1) \o SubSeq(q, i + 1, Len(q))

\* line 114 has run (ran) with result r, or was skipped: refresh i ends
Finish(i, data, ran, r) ==
    /\ reqs' = Remove(reqs, i)
    /\ ui' = IF ran THEN r.doc ELSE ui
    /\ arg' = IF ran THEN data ELSE arg
    /\ out' = IF ran
              THEN [calls |-> 1, threw |-> r.threw, caught |-> r.caught,
                    tables |-> r.tables]
              ELSE out
    /\ shown' = [id \in ContainerIds |->
                   IF /\ ran
                      /\ \/ r.tables = 3
                         \/ r.tables = 2 /\ id /= "transmissions"
                   THEN data ELSE shown[id]]
    /\ UNCHANGED <<loaded, fn>>

\* line 113-115 from the moment fetchState has returned data: the rest of
\* refresh, to its end or to the exception that escapes it
Resume(i, data, now) == Finish(i, data, ~Falsy(data), renderState(ui, data, now))

\* line 6-8, 113-115: the try block of fetchState threw error; it is logged
\* and refresh goes on with what the catch block returns
Caught(i, error) ==
    /\ Resume(i, fetchStateCatch, 1)
    /\ logged' = <<LogFetchFailed, error>>
    /\ outcome' = IF Falsy(fetchStateCatch) THEN "failed"
                  ELSE IF out'.threw THEN "threw" ELSE "rendered"

Init ==
    /\ ui = Document
    /\ reqs = <<>>
    /\ loaded = FALSE
    /\ outcome = "none"
    /\ logged = <<>>
    /\ shown = [id \in ContainerIds |-> Undefined]
    /\ fn = "refresh"
    /\ arg = Undefined
    /\ out = NoCall

\* line 117-120: the page has loaded; the click handler is registered and the
\* first refresh starts
DOMContentLoaded ==
    /\ ~loaded
    /\ loaded' = TRUE
    /\ reqs' = Append(reqs, "fetch")
    /\ UNCHANGED <<ui, outcome, logged, shown, fn, arg, out>>

\* line 118: a click on reload starts a refresh, whatever is in flight
ClickReload ==
    /\ loaded
    /\ Len(reqs) < MaxPending
    /\ reqs' = Append(reqs, "fetch")
    /\ UNCHANGED <<ui, loaded, outcome, logged, shown, fn, arg, out>>

\* line 3: the fetch of refresh i rejects (a transport failure)
FetchRejects(i) ==
    /\ reqs[i] = "fetch"
    /\ Caught(i, "TypeError: Failed to fetch")

\* line 4: the response of refresh i is not 2xx
FetchNotOk(i) ==
    /\ reqs[i] = "fetch"
    /\ Caught(i, "Error: statusText")

\* line 3-5: the response of refresh i is 2xx; its body is read next
FetchOk(i) ==
    /\ reqs[i] = "fetch"
    /\ reqs' = [reqs EXCEPT ![i] = "json"]
    /\ UNCHANGED <<ui, loaded, outcome, logged, shown, fn, arg, out>>

\* line 5: the body of refresh i is not JSON
JsonRejects(i) ==
    /\ reqs[i] = "json"
    /\ Caught(i, "SyntaxError")

\* line 5, 113-114: the body of refresh i parses to data
JsonResolves(i, data, now) ==
    /\ reqs[i] = "json"
    /\ Resume(i, data, now)
    /\ outcome' = IF Falsy(data) THEN "empty"
                  ELSE IF out'.threw THEN "threw" ELSE "rendered"
    /\ logged' = IF ~Falsy(data) /\ out'.caught THEN <<LogHistory, "TypeError">>
                 ELSE logged

Next ==
    \/ DOMContentLoaded
    \/ ClickReload
    \/ \E i \in 1..Len(reqs) : FetchRejects(i)
    \/ \E i \in 1..Len(reqs) : FetchNotOk(i)
    \/ \E i \in 1..Len(reqs) : FetchOk(i)
    \/ \E i \in 1..Len(reqs) : JsonRejects(i)
    \/ \E i \in 1..Len(reqs), data \in Bodies, now \in Clock : JsonResolves(i, data, now)

Spec == Init /\ [][Next]_vars

(***************************************************************************)
(* renderState on its own: any snapshot, on a document already rendered    *)
(* from some body or not yet rendered, called MaxCalls times               *)
(***************************************************************************)
PriorDocuments == {Document} \cup {renderState(Document, b, 1).doc : b \in Bodies}

InitRender ==
    /\ ui \in PriorDocuments
    /\ arg \in Snapshots
    /\ fn = "renderState"
    /\ out = NoCall
    /\ reqs = <<>>
    /\ loaded = TRUE
    /\ outcome = "none"
    /\ logged = <<>>
    /\ shown = [id \in ContainerIds |-> Undefined]

Called(r) ==
    /\ ui' = r.doc
    /\ out' = [calls |-> out.calls + 1, threw |-> r.threw, caught |-> r.caught,
               tables |-> r.tables]
    /\ logged' = IF r.caught THEN <<LogHistory, "TypeError">> ELSE logged
    /\ UNCHANGED <<reqs, loaded, outcome, shown, fn, arg>>

CallRenderState(now) ==
    /\ out.calls < MaxCalls
    /\ Called(renderState(ui, arg, now))

NextRender == \E now \in Clock : CallRenderState(now)

SpecRender == InitRender /\ [][NextRender]_vars

(***************************************************************************)
(* The three formatters on their own                                       *)
(***************************************************************************)
TimestampStrings ==
    {y \o m \o d \o <<"T">> \o h \o mi \o se \o <<"Z">> :
       y \in {<<"0", "0", "0", "0">>, <<"0", "0", "9", "9">>, <<"0", "1", "0", "0">>,
              <<"2", "0", "2", "4">>, <<"9", "9", "9", "9">>},
       m \in {<<"0", "0">>, <<"0", "1">>, <<"0", "2">>, <<"1", "2">>, <<"1", "3">>},
       d \in {<<"0", "0">>, <<"0", "1">>, <<"2", "9">>, <<"3", "1">>, <<"3", "2">>},
       h \in {<<"0", "0">>, <<"1", "3">>, <<"2", "4">>},
       mi \in {<<"0", "0">>, <<"3", "0">>, <<"6", "0">>},
       se \in {<<"0", "0">>, <<"5", "9">>, <<"6", "0">>}}

TimestampInputs ==
    {Str(t) : t \in TimestampStrings}
    \cup {Str(<<>>), Str(StrNA), Str(ReplaceFirst(Ts20240115, "T", <<"t">>)),
          Str(ReplaceFirst(Ts20240115, "Z", <<>>)), Str(Ts20240115 \o <<"Z">>),
          Str(<<" ">> \o Ts20240115), Str(ReplaceFirst(Ts20240115, "5", <<"x">>)),
          Null, Undefined, Num(0), Num(20240115), Bool(TRUE), Bool(FALSE)}

StatusCodeChars == {"0", "4", "6", "7", " ", "-", "a"}

StatusCodeInputs ==
    {Str(c) : c \in SeqsUpTo(StatusCodeChars, MaxCodeLen)}
    \cup {Num(n) : n \in {-1, 0, 4, 6, 7, 46}}
    \cup {Null, Undefined, Bool(TRUE), Bool(FALSE), Obj(<<>>)}

LocationStatusInputs ==
    {Null, Undefined, EmptyStr, Num(0), Num(60), Bool(FALSE), Bool(TRUE),
     Str(StrPct60), Str(StrPercentagePrefix),
     Str(SubSeq(StrPercentagePrefix, 1, 10)),
     Str(StrPercentagePrefix \o <<" ", "6", "0", "%">>),
     Str(StrPct60 \o <<" ", "x">>), Str(StrBraces), Str(StrNA)}

InitFormat ==
    /\ fn = "none"
    /\ arg = Undefined
    /\ out = Undefined
    /\ ui = Document
    /\ reqs = <<>>
    /\ loaded = FALSE
    /\ outcome = "none"
    /\ logged = <<>>
    /\ shown = [id \in ContainerIds |-> Undefined]

CallFormatTimestamp(ts) ==
    /\ fn = "none"
    /\ fn' = "formatTimestamp"
    /\ arg' = ts
    /\ out' = formatTimestamp(ts)
    /\ UNCHANGED <<ui, reqs, loaded, outcome, logged, shown>>

CallFormatStatusCode(code) ==
    /\ fn = "none"
    /\ fn' = "formatStatusCode"
    /\ arg' = code
    /\ out' = formatStatusCode(code)
    /\ UNCHANGED <<ui, reqs, loaded, outcome, logged, shown>>

CallFormatLocationStatus(ls) ==
    /\ fn = "none"
    /\ fn' = "formatLocationStatus"
    /\ arg' = ls
    /\ out' = formatLocationStatus(ls)
    /\ UNCHANGED <<ui, reqs, loaded, outcome, logged, shown>>

NextFormat ==
    \/ \E ts \in TimestampInputs : CallFormatTimestamp(ts)
    \/ \E code \in StatusCodeInputs : CallFormatStatusCode(code)
    \/ \E ls \in LocationStatusInputs : CallFormatLocationStatus(ls)

SpecFormat == InitFormat /\ [][NextFormat]_vars

(***************************************************************************)
(* What the claims are stated with                                         *)
(***************************************************************************)
\* the table a container holds, when it holds exactly one
HasTable(id) == Len(ui[id]) = 1
RowsOf(id) == ui[id][1].rows
RowTexts(id, i) == [j \in 1..Len(RowsOf(id)[i]) |-> RowsOf(id)[i][j].text]

\* the text a cell shows for a value
Text(v) == Cell(v).text

\* the teams of s in ascending lexical order, stated without the sort
Ascending(S) ==
    CHOOSE q \in [1..Cardinality(S) -> S] :
        \A i, j \in 1..Cardinality(S) : i < j => CodeUnitLess(q[i], q[j])

\* an event for which no history row can be built: a null, or an event whose
\* timestamp is neither a string nor falsy
Malformed(e) ==
    \/ Tag(e) \in {"null", "undefined"}
    \/ ~Falsy(Get(e, "timestamp")) /\ ~IsString(Get(e, "timestamp"))

\* every (team, event) pair, teams ascending, events in stored order
AllPairs(s) ==
    Concat([i \in 1..Cardinality(Keys(s)) |->
              [j \in 1..Len(Elems(Get(s, Ascending(Keys(s))[i]))) |->
                 <<Ascending(Keys(s))[i], Elems(Get(s, Ascending(Keys(s))[i]))[j]>>]])

FirstMalformed(pairs) ==
    IF \A i \in 1..Len(pairs) : ~Malformed(pairs[i][2]) THEN Len(pairs) + 1
    ELSE CHOOSE i \in 1..Len(pairs) :
           Malformed(pairs[i][2]) /\ \A j \in 1..(i - 1) : ~Malformed(pairs[j][2])

\* the texts of the history row of a well-formed event
EventTexts(team, e) ==
    <<team, Text(formatTimestamp(Get(e, "timestamp"))), Text(Get(e, "location")),
      Text(formatLocationStatus(Get(e, "location_status"))), Text(Get(e, "transit")),
      Text(formatStatusCode(Get(e, "status_code")))>>

\* the texts of the Current Status row of a team whose last event is e
CurrentTexts(team, location, e) ==
    IF Tag(e) = "null"
    THEN <<team, Text(OrElse(location, EmptyStr)), <<>>, <<>>, <<>>, <<>>>>
    ELSE <<team, Text(OrElse(location, EmptyStr)),
           Text(formatLocationStatus(Get(e, "location_status"))), Text(Get(e, "transit")),
           Text(formatStatusCode(Get(e, "status_code"))),
           Text(formatTimestamp(Get(e, "timestamp")))>>

Rendered == fn = "renderState" /\ out.calls >= 1

(***************************************************************************)
(* C1.  A refresh whose fetch fails (the fetch rejects, the response is    *)
(* not 2xx, or the body is not JSON) ends with fetchState returning null:  *)
(* renderState is not run and the three tables and last-updated are left   *)
(* as they were; and no step but the arrival of a parsed body changes      *)
(* them, so the failed refresh changes nothing from its start to its end.  *)
(***************************************************************************)
FailedFetch == \E i \in 1..Len(reqs) : FetchRejects(i) \/ FetchNotOk(i) \/ JsonRejects(i)

BodyArrives == \E i \in 1..Len(reqs), data \in Bodies, now \in Clock : JsonResolves(i, data, now)

C2_NothingFatal ==
    /\ outcome /= "threw"
    /\ (loaded /\ Len(reqs) < MaxPending) => ENABLED ClickReload

(***************************************************************************)
(* C3.  After renderState the Current Status table has exactly one row per *)
(* key of status_by_team, in ascending lexical order of team, each showing *)
(* the fields of the last event of the team's history, or empty event      *)
(* fields for an empty history.                                            *)
(***************************************************************************)
C3_CurrentStatusRows ==
    Rendered =>
        /\ HasTable("current-status")
        /\ Len(RowsOf("current-status")) = Cardinality(Keys(StatusByTeam(arg)))
        /\ \A i \in 1..Cardinality(Keys(StatusByTeam(arg))) :
             /\ ~Malformed(Last(Elems(Get(StatusByTeam(arg),
                                          Ascending(Keys(StatusByTeam(arg)))[i]))))
                \/ Tag(Last(Elems(Get(StatusByTeam(arg),
                                      Ascending(Keys(StatusByTeam(arg)))[i])))) = "null"
             /\ RowTexts("current-status", i) =
                  CurrentTexts(Ascending(Keys(StatusByTeam(arg)))[i],
                               Get(LocationByTeam(arg), Ascending(Keys(StatusByTeam(arg)))[i]),
                               Last(Elems(Get(StatusByTeam(arg),
                                              Ascending(Keys(StatusByTeam(arg)))[i]))))

SameDigits(s) ==
    SubSeq(s, 1, 4) \o <<"-">> \o SubSeq(s, 5, 6) \o <<"-">> \o SubSeq(s, 7, 8)
    \o <<" ">> \o SubSeq(s, 10, 11) \o <<":">> \o SubSeq(s, 12, 13) \o <<":">>
    \o SubSeq(s, 14, 15) \o <<" ", "U", "T", "C">>

C6_FormatTimestamp ==
    fn = "formatTimestamp" =>
        IF IsString(arg) /\ MatchesTimestamp(arg[2])
        THEN out = Str(SameDigits(arg[2]))
        ELSE out = arg

(***************************************************************************)
(* C7.  formatStatusCode(code) is '' for null, undefined and ''; else,     *)
(* when Number(code) is a number, '4 - ok' for 4, '6 - not ok' for 6 and   *)
(* the number's string form otherwise; else the string form of code.       *)
(***************************************************************************)
C7_FormatStatusCode ==
    fn = "formatStatusCode" =>
        IF arg = Null \/ arg = Undefined \/ arg = EmptyStr THEN out = EmptyStr
        ELSE IF Tag(ToNumber(arg)) = "number"
        THEN /\ ToNumber(arg)[2] = 4 => out = Str(Str4ok)
             /\ ToNumber(arg)[2] = 6 => out = Str(Str6notok)
             /\ ToNumber(arg)[2] \notin {4, 6} => out = Str(NumToStr(ToNumber(arg)[2]))
        ELSE out = Str(ToStr(arg))

\* a string that coerces to 4 after trimming
C7_Witness ==
    /\ fn = "formatStatusCode"
    /\ arg = Str(<<" ", "0", "4">>)
    /\ out = Str(Str4ok)

(***************************************************************************)
(* C8.  Rendering is idempotent: a second renderState with the same        *)
(* snapshot leaves the three containers exactly as the first left them,    *)
(* whatever they held before the first.                                    *)
(***************************************************************************)
C8_RenderIdempotent ==
    [][Rendered => \A id \in ContainerIds : ui'[id] = ui[id]]_vars

\* rendered twice, every table rebuilt, rows in the history
C8_Witness ==
    /\ fn = "renderState" /\ out.calls = 2
    /\ out.tables = 3
    /\ Len(RowsOf("status-history")) >= 1
    /\ Len(RowsOf("current-status")) >= 1

(***************************************************************************)
(* C9.  Overlapping refreshes: once every response has been processed, the *)
(* tables show the snapshot of the successful response that arrived last.  *)
(***************************************************************************)
Shows(data) ==
    /\ ~CurrentRows(StatusByTeam(data), LocationByTeam(data)).threw
    /\ ~TxRows(data).threw
    /\ ui["current-status"] =
         <<TableOf(currentHeaders, CurrentRows(StatusByTeam(data), LocationByTeam(data)).rows)>>
    /\ ui["status-history"] = <<TableOf(histHeaders, HistRows(StatusByTeam(data)).rows)>>
    /\ ui["transmissions"] = <<TableOf(txHeaders, TxRows(data).rows)>>

C9_LastResponseWins == (fn = "refresh" /\ reqs = <<>> /\ out.calls >= 1) => Shows(arg)

(***************************************************************************)
(* C10.  Whenever control is back in the event loop, the three tables are  *)
(* all unrendered or all built from one and the same snapshot.             *)
(***************************************************************************)
C10_OneSnapshotShown == \A a, b \in ContainerIds : shown[a] = shown[b]
====
